---- MODULE Spec2Model ----
(***************************************************************************)
(* Model of bin/input_handlers.py: the modal input dispatch and the turn   *)
(* resolution of the roguelike.  One step of the model is one call of      *)
(* EventHandler.handle_events on the engine's active event handler.        *)
(***************************************************************************)
EXTENDS Integers, Sequences, FiniteSets, TLC

VARIABLES
    event_handler,   \* engine.event_handler: the active handler object
    message_log,     \* engine.message_log.messages: sequence of [text, fg]
    mouse_location,  \* engine.mouse_location: <<x, y>>, or <<>> while unset
    running,         \* FALSE once SystemExit has been raised
    enemy_turns,     \* number of engine.handle_enemy_turns() calls so far
    fov_updates,     \* number of engine.update_fov() calls so far
    performed_ok,    \* number of action.perform() calls that returned normally
    last,            \* what the last handle_events call received and did
    discarded        \* the history viewer most recently replaced, where the
                     \* exploration keeps track of it (SpecReopen)

vars == <<event_handler, message_log, mouse_location, running,
          enemy_turns, fov_updates, performed_ok, last, discarded>>

----------------------------------------------------------------------------
(* Bounds of the model. *)

\* Spec: longest message log, largest number of successful actions
MaxLog == 2
MaxTurns == 2
\* SpecScroll: longest message log, largest number of successful actions
MaxHistory == 12
MaxScrollTurns == 0
\* SpecReopen: longest message log
MaxReopenLog == 3
\* largest number of presses of one key in a row considered
MaxPresses == 13
\* size of the game map consulted by in_bounds
MapWidth == 1
MapHeight == 1

----------------------------------------------------------------------------
(* Static key tables. *)

\* Variant: the two left-hand diagonals are exchanged.
MOVE_KEYS_DiagonalsSwapped ==
    [UP       |-> <<0, -1>>,
     DOWN     |-> <<0, 1>>,
     LEFT     |-> <<-1, 0>>,
     RIGHT    |-> <<1, 0>>,
     HOME     |-> <<-1, 1>>,
     END      |-> <<-1, -1>>,
     PAGEUP   |-> <<1, -1>>,
     PAGEDOWN |-> <<1, 1>>]

MOVE_KEYS ==
    [UP       |-> <<0, -1>>,
     DOWN     |-> <<0, 1>>,
     LEFT     |-> <<-1, 0>>,
     RIGHT    |-> <<1, 0>>,
     HOME     |-> <<-1, -1>>,
     END      |-> <<-1, 1>>,
     PAGEUP   |-> <<1, -1>>,
     PAGEDOWN |-> <<1, 1>>]

WAIT_KEYS == {"PERIOD"}

CURSOR_Y_KEYS ==
    [UP       |-> -1,
     DOWN     |-> 1,
     PAGEUP   |-> -10,
     PAGEDOWN |-> 10]

\* The key symbols the handlers distinguish, and two ("a", "RETURN") bound to nothing.
KeySym ==
    DOMAIN MOVE_KEYS \cup WAIT_KEYS \cup {"ESCAPE", "v", "g", "a", "RETURN"}

----------------------------------------------------------------------------
(* Values. *)

\* Optional[Action]: the Action constructed by ev_keydown, or None.
None == [kind |-> "None", dx |-> 0, dy |-> 0]
BumpAction(dx, dy) == [kind |-> "BumpAction", dx |-> dx, dy |-> dy]
WaitAction == [kind |-> "WaitAction", dx |-> 0, dy |-> 0]
EscapeAction == [kind |-> "EscapeAction", dx |-> 0, dy |-> 0]
PickupAction == [kind |-> "PickupAction", dx |-> 0, dy |-> 0]

\* The handler objects.  Only HistoryViewer carries fields of its own.
MainGameEventHandler == [cls |-> "MainGameEventHandler"]
GameOverEventHandler == [cls |-> "GameOverEventHandler"]
HelpViewer == [cls |-> "HelpViewer"]

Min(a, b) == IF a < b THEN a ELSE b
Max(a, b) == IF a > b THEN a ELSE b

\* Variant: the cursor starts one past the newest message.
HistoryViewer_CursorAtLength(messages) ==
    [cls        |-> "HistoryViewer",
     log_length |-> Len(messages),
     cursor     |-> Len(messages)]

\* HistoryViewer.__init__: snapshot of the log length, cursor on the newest.
HistoryViewer(messages) ==
    [cls        |-> "HistoryViewer",
     log_length |-> Len(messages),
     cursor     |-> Len(messages) - 1]

\* The events the host delivers.
KeyDown(sym) == [type |-> "KEYDOWN", sym |-> sym, tile |-> <<>>]
MouseMotion(x, y) == [type |-> "MOUSEMOTION", sym |-> "", tile |-> <<x, y>>]
Quit == [type |-> "QUIT", sym |-> "", tile |-> <<>>]
KeyUp == [type |-> "KEYUP", sym |-> "", tile |-> <<>>]

\* Tiles a pointer event may report: the map and one tile beyond each edge.
ReportedX == -1 .. MapWidth
ReportedY == -1 .. MapHeight

----------------------------------------------------------------------------
(* Collaborators of the engine. *)

\* game_map.in_bounds(x, y)
in_bounds(x, y) == 0 <= x /\ x < MapWidth /\ 0 <= y /\ y < MapHeight

\* message_log.add_message(text, fg)
add_message(messages, text, fg) == Append(messages, [text |-> text, fg |-> fg])

\* action.perform(): what the call does is decided outside this file.  It
\* returns normally (possibly logging one message), raises Impossible, or
\* raises something handle_action does not catch (SystemExit).
PerformOutcomes == {"ok", "impossible", "exit"}

----------------------------------------------------------------------------
(* The handlers' event methods, as functions of the handler and the event. *)
(* Each yields the Action returned, the handler to install, the pointer    *)
(* location to store and whether SystemExit was raised.                    *)

Translated(action, handler, mouse, exit) ==
    [action |-> action, event_handler |-> handler,
     mouse_location |-> mouse, exit |-> exit]

\* Variant: the reported tile is stored without the bounds check.
ev_mousemotion_NoCheck(handler, mouse, tile) ==
    Translated(None, handler, tile, FALSE)

\* EventHandler.ev_mousemotion
ev_mousemotion(handler, mouse, tile) ==
    IF in_bounds(tile[1], tile[2])
    THEN Translated(None, handler, tile, FALSE)
    ELSE Translated(None, handler, mouse, FALSE)

\* Variant: the event is swallowed instead of raising SystemExit.
ev_quit_ReturnsNone(handler, mouse) == Translated(None, handler, mouse, FALSE)

\* EventHandler.ev_quit
ev_quit(handler, mouse) == Translated(None, handler, mouse, TRUE)

\* Variant: the last branch is an else, so every other key picks up.
MainGame_ev_keydown_ElsePickup(handler, mouse, messages, key) ==
    IF key \in DOMAIN MOVE_KEYS
    THEN Translated(BumpAction(MOVE_KEYS[key][1], MOVE_KEYS[key][2]),
                    handler, mouse, FALSE)
    ELSE IF key \in WAIT_KEYS
    THEN Translated(WaitAction, handler, mouse, FALSE)
    ELSE IF key = "ESCAPE"
    THEN Translated(EscapeAction, handler, mouse, FALSE)
    ELSE IF key = "v"
    THEN Translated(None, HistoryViewer(messages), mouse, FALSE)
    ELSE Translated(PickupAction, handler, mouse, FALSE)

\* Variant: escape raises SystemExit, as it does once the game is over.
MainGame_ev_keydown_EscapeExits(handler, mouse, messages, key) ==
    IF key \in DOMAIN MOVE_KEYS
    THEN Translated(BumpAction(MOVE_KEYS[key][1], MOVE_KEYS[key][2]),
                    handler, mouse, FALSE)
    ELSE IF key \in WAIT_KEYS
    THEN Translated(WaitAction, handler, mouse, FALSE)
    ELSE IF key = "ESCAPE"
    THEN Translated(None, handler, mouse, TRUE)
    ELSE IF key = "v"
    THEN Translated(None, HistoryViewer(messages), mouse, FALSE)
    ELSE IF key = "g"
    THEN Translated(PickupAction, handler, mouse, FALSE)
    ELSE Translated(None, handler, mouse, FALSE)

\* Variant: v installs the viewer that was open before, if there was one.
MainGame_ev_keydown_ReusesViewer(handler, mouse, messages, key) ==
    IF key \in DOMAIN MOVE_KEYS
    THEN Translated(BumpAction(MOVE_KEYS[key][1], MOVE_KEYS[key][2]),
                    handler, mouse, FALSE)
    ELSE IF key \in WAIT_KEYS
    THEN Translated(WaitAction, handler, mouse, FALSE)
    ELSE IF key = "ESCAPE"
    THEN Translated(EscapeAction, handler, mouse, FALSE)
    ELSE IF key = "v"
    THEN Translated(None,
                    IF discarded.cls = "HistoryViewer"
                    THEN discarded ELSE HistoryViewer(messages),
                    mouse, FALSE)
    ELSE IF key = "g"
    THEN Translated(PickupAction, handler, mouse, FALSE)
    ELSE Translated(None, handler, mouse, FALSE)

\* MainGameEventHandler.ev_keydown
MainGame_ev_keydown(handler, mouse, messages, key) ==
    IF key \in DOMAIN MOVE_KEYS
    THEN Translated(BumpAction(MOVE_KEYS[key][1], MOVE_KEYS[key][2]),
                    handler, mouse, FALSE)
    ELSE IF key \in WAIT_KEYS
    THEN Translated(WaitAction, handler, mouse, FALSE)
    ELSE IF key = "ESCAPE"
    THEN Translated(EscapeAction, handler, mouse, FALSE)
    ELSE IF key = "v"
    THEN Translated(None, HistoryViewer(messages), mouse, FALSE)
    ELSE IF key = "g"
    THEN Translated(PickupAction, handler, mouse, FALSE)
    ELSE Translated(None, handler, mouse, FALSE)

\* Variant: escape yields an EscapeAction, as it does in the main game.
GameOver_ev_keydown_EscapeAction(handler, mouse, key) ==
    IF key = "ESCAPE"
    THEN Translated(EscapeAction, handler, mouse, FALSE)
    ELSE Translated(None, handler, mouse, FALSE)

\* GameOverEventHandler.ev_keydown
GameOver_ev_keydown(handler, mouse, key) ==
    Translated(None, handler, mouse, key = "ESCAPE")

\* Variant: the first branch assigns the value it computes.
HistoryCursorAdjust_AssignWrap(cursor, log_length, adjust) ==
    IF adjust < 0 /\ cursor = 0
    THEN cursor - log_length - 1
    ELSE IF adjust > 0 /\ cursor = log_length - 1
    THEN 0
    ELSE Max(0, Min(cursor + adjust, log_length - 1))

\* Variant: the last branch moves the cursor without clamping it.
HistoryCursorAdjust_NoClamp(cursor, log_length, adjust) ==
    IF adjust < 0 /\ cursor = 0
    THEN cursor
    ELSE IF adjust > 0 /\ cursor = log_length - 1
    THEN 0
    ELSE cursor + adjust

\* Variant: the first branch wraps from the oldest message to the newest.
HistoryCursorAdjust_WrapsBothEnds(cursor, log_length, adjust) ==
    IF adjust < 0 /\ cursor = 0
    THEN log_length - 1
    ELSE IF adjust > 0 /\ cursor = log_length - 1
    THEN 0
    ELSE Max(0, Min(cursor + adjust, log_length - 1))

\* The cursor HistoryViewer.ev_keydown leaves for a key of CURSOR_Y_KEYS.
HistoryCursorAdjust(cursor, log_length, adjust) ==
    IF adjust < 0 /\ cursor = 0
    THEN cursor       \* "self.cursor - self.log_length - 1": no assignment
    ELSE IF adjust > 0 /\ cursor = log_length - 1
    THEN 0
    ELSE Max(0, Min(cursor + adjust, log_length - 1))

\* Variant: the END branch is missing, so END falls into the else.
History_ev_keydown_NoEnd(handler, mouse, key) ==
    IF key \in DOMAIN CURSOR_Y_KEYS
    THEN Translated(None,
             [handler EXCEPT !.cursor =
                 HistoryCursorAdjust(handler.cursor, handler.log_length,
                                     CURSOR_Y_KEYS[key])],
             mouse, FALSE)
    ELSE IF key = "HOME"
    THEN Translated(None, [handler EXCEPT !.cursor = 0], mouse, FALSE)
    ELSE Translated(None, MainGameEventHandler, mouse, FALSE)

\* Variant: the else branch hands the key on to the main game as well.
History_ev_keydown_PassesKeyOn(handler, mouse, key) ==
    IF key \in DOMAIN CURSOR_Y_KEYS
    THEN Translated(None,
             [handler EXCEPT !.cursor =
                 HistoryCursorAdjust(handler.cursor, handler.log_length,
                                     CURSOR_Y_KEYS[key])],
             mouse, FALSE)
    ELSE IF key = "HOME"
    THEN Translated(None, [handler EXCEPT !.cursor = 0], mouse, FALSE)
    ELSE IF key = "END"
    THEN Translated(None, [handler EXCEPT !.cursor = handler.log_length - 1],
                    mouse, FALSE)
    ELSE Translated(
             MainGame_ev_keydown(MainGameEventHandler, mouse, <<>>, key).action,
             MainGameEventHandler, mouse, FALSE)

\* Variant: END puts the cursor one past the newest message.
History_ev_keydown_EndAtLength(handler, mouse, key) ==
    IF key \in DOMAIN CURSOR_Y_KEYS
    THEN Translated(None,
             [handler EXCEPT !.cursor =
                 HistoryCursorAdjust(handler.cursor, handler.log_length,
                                     CURSOR_Y_KEYS[key])],
             mouse, FALSE)
    ELSE IF key = "HOME"
    THEN Translated(None, [handler EXCEPT !.cursor = 0], mouse, FALSE)
    ELSE IF key = "END"
    THEN Translated(None, [handler EXCEPT !.cursor = handler.log_length],
                    mouse, FALSE)
    ELSE Translated(None, MainGameEventHandler, mouse, FALSE)

\* Variant: the else branch installs the help viewer.
History_ev_keydown_ToHelp(handler, mouse, key) ==
    IF key \in DOMAIN CURSOR_Y_KEYS
    THEN Translated(None,
             [handler EXCEPT !.cursor =
                 HistoryCursorAdjust(handler.cursor, handler.log_length,
                                     CURSOR_Y_KEYS[key])],
             mouse, FALSE)
    ELSE IF key = "HOME"
    THEN Translated(None, [handler EXCEPT !.cursor = 0], mouse, FALSE)
    ELSE IF key = "END"
    THEN Translated(None, [handler EXCEPT !.cursor = handler.log_length - 1],
                    mouse, FALSE)
    ELSE Translated(None, HelpViewer, mouse, FALSE)

\* Variant: the else branch is the main game's ev_keydown, run with the
\* viewer still installed.
History_ev_keydown_InheritsMainKeys(handler, mouse, key) ==
    IF key \in DOMAIN CURSOR_Y_KEYS
    THEN Translated(None,
             [handler EXCEPT !.cursor =
                 HistoryCursorAdjust(handler.cursor, handler.log_length,
                                     CURSOR_Y_KEYS[key])],
             mouse, FALSE)
    ELSE IF key = "HOME"
    THEN Translated(None, [handler EXCEPT !.cursor = 0], mouse, FALSE)
    ELSE IF key = "END"
    THEN Translated(None, [handler EXCEPT !.cursor = handler.log_length - 1],
                    mouse, FALSE)
    ELSE IF key \in {"v", "a", "RETURN"}
    THEN Translated(None, MainGameEventHandler, mouse, FALSE)
    ELSE MainGame_ev_keydown(handler, mouse, <<>>, key)

\* HistoryViewer.ev_keydown
History_ev_keydown(handler, mouse, key) ==
    IF key \in DOMAIN CURSOR_Y_KEYS
    THEN Translated(None,
             [handler EXCEPT !.cursor =
                 HistoryCursorAdjust(handler.cursor, handler.log_length,
                                     CURSOR_Y_KEYS[key])],
             mouse, FALSE)
    ELSE IF key = "HOME"
    THEN Translated(None, [handler EXCEPT !.cursor = 0], mouse, FALSE)
    ELSE IF key = "END"
    THEN Translated(None, [handler EXCEPT !.cursor = handler.log_length - 1],
                    mouse, FALSE)
    ELSE Translated(None, MainGameEventHandler, mouse, FALSE)

\* HistoryViewer.on_render: the slice messages[: cursor + 1] handed to
\* render_messages.  A stop below 0 counts from the end of the list and a
\* stop beyond the list is cut to its length.
RenderedMessages(messages, cursor) ==
    LET stop == cursor + 1
        from_end == IF stop < 0 THEN Max(0, Len(messages) + stop) ELSE stop
    IN  SubSeq(messages, 1, Min(from_end, Len(messages)))

\* tcod's EventDispatch.dispatch: the ev_* method of the active handler's
\* class for the event's type; an event type with no override yields None.
dispatch(handler, mouse, messages, event) ==
    IF event.type = "MOUSEMOTION" THEN ev_mousemotion(handler, mouse, event.tile)
    ELSE IF event.type = "QUIT" THEN ev_quit(handler, mouse)
    ELSE IF event.type = "KEYDOWN" /\ handler.cls = "MainGameEventHandler"
    THEN MainGame_ev_keydown(handler, mouse, messages, event.sym)
    ELSE IF event.type = "KEYDOWN" /\ handler.cls = "GameOverEventHandler"
    THEN GameOver_ev_keydown(handler, mouse, event.sym)
    ELSE IF event.type = "KEYDOWN" /\ handler.cls = "HistoryViewer"
    THEN History_ev_keydown(handler, mouse, event.sym)
    ELSE Translated(None, handler, mouse, FALSE)

----------------------------------------------------------------------------
(* Turn resolution. *)

\* The text carried by an Impossible exception (exc.args[0]).
ImpossibleText == "That way is blocked."

\* engine.handle_enemy_turns(): the non-player actors act; the player may
\* die of it, and the death handler then installs GameOverEventHandler.
handle_enemy_turns(handler, dies) ==
    IF dies THEN GameOverEventHandler ELSE handler

\* What handle_action did: its return value, the engine calls it made in
\* order, the engine fields it left and whether SystemExit escaped it.
Resolved(ret, calls, messages, handler, exit) ==
    [ret |-> ret, calls |-> calls, message_log |-> messages,
     event_handler |-> handler, exit |-> exit]

\* Variant: the except clause does not return, so a refused action goes on
\* to the enemy turns.
handle_action_NoReturn(action, handler, messages, outcome, info, dies) ==
    IF action = None
    THEN Resolved("False", <<>>, messages, handler, FALSE)
    ELSE IF outcome = "impossible"
    THEN Resolved("True", <<"perform", "add_message", "handle_enemy_turns",
                            "update_fov">>,
                  add_message(messages, ImpossibleText, "impossible"),
                  handle_enemy_turns(handler, dies), FALSE)
    ELSE IF outcome = "exit"
    THEN Resolved("SystemExit", <<"perform">>, messages, handler, TRUE)
    ELSE Resolved("True", <<"perform", "handle_enemy_turns", "update_fov">>,
                  IF info THEN add_message(messages, "You act.", "white")
                          ELSE messages,
                  handle_enemy_turns(handler, dies), FALSE)

\* Variant: visibility is recomputed before the enemies act.
handle_action_FovFirst(action, handler, messages, outcome, info, dies) ==
    IF action = None
    THEN Resolved("False", <<>>, messages, handler, FALSE)
    ELSE IF outcome = "impossible"
    THEN Resolved("False", <<"perform", "add_message">>,
                  add_message(messages, ImpossibleText, "impossible"),
                  handler, FALSE)
    ELSE IF outcome = "exit"
    THEN Resolved("SystemExit", <<"perform">>, messages, handler, TRUE)
    ELSE Resolved("True", <<"perform", "update_fov", "handle_enemy_turns">>,
                  IF info THEN add_message(messages, "You act.", "white")
                          ELSE messages,
                  handle_enemy_turns(handler, dies), FALSE)

\* Variant: visibility is not recomputed when the player died.
handle_action_NoFovOnDeath(action, handler, messages, outcome, info, dies) ==
    IF action = None
    THEN Resolved("False", <<>>, messages, handler, FALSE)
    ELSE IF outcome = "impossible"
    THEN Resolved("False", <<"perform", "add_message">>,
                  add_message(messages, ImpossibleText, "impossible"),
                  handler, FALSE)
    ELSE IF outcome = "exit"
    THEN Resolved("SystemExit", <<"perform">>, messages, handler, TRUE)
    ELSE Resolved("True",
                  IF dies THEN <<"perform", "handle_enemy_turns">>
                  ELSE <<"perform", "handle_enemy_turns", "update_fov">>,
                  IF info THEN add_message(messages, "You act.", "white")
                          ELSE messages,
                  handle_enemy_turns(handler, dies), FALSE)

\* EventHandler.handle_action.  outcome is what action.perform() does, info
\* whether a successful perform() logs a message of its own, dies whether
\* the player dies during the enemy turns.
handle_action(action, handler, messages, outcome, info, dies) ==
    IF action = None
    THEN Resolved("False", <<>>, messages, handler, FALSE)
    ELSE IF outcome = "impossible"
    THEN Resolved("False", <<"perform", "add_message">>,
                  add_message(messages, ImpossibleText, "impossible"),
                  handler, FALSE)
    ELSE IF outcome = "exit"
    THEN Resolved("SystemExit", <<"perform">>, messages, handler, TRUE)
    ELSE Resolved("True", <<"perform", "handle_enemy_turns", "update_fov">>,
                  IF info THEN add_message(messages, "You act.", "white")
                          ELSE messages,
                  handle_enemy_turns(handler, dies), FALSE)

\* Number of occurrences of call c in a sequence of engine calls.
Count(calls, c) == Cardinality({i \in DOMAIN calls : calls[i] = c})

\* EventHandler.handle_events: self.handle_action(self.dispatch(event)).
handle_events(event, outcome, info, dies) ==
    /\ running
    /\ LET t == dispatch(event_handler, mouse_location, message_log, event)
           r == IF t.exit
                THEN Resolved("SystemExit", <<>>, message_log,
                              t.event_handler, TRUE)
                ELSE handle_action(t.action, t.event_handler, message_log,
                                   outcome, info, dies)
           \* 1 when perform() was called and returned normally
           ok == IF ~t.exit /\ t.action # None /\ outcome = "ok" THEN 1 ELSE 0
           \* assignments to engine.event_handler: by the ev_* method (each
           \* installs a handler of another class), then by the enemy turns
           twrites == IF t.event_handler.cls # event_handler.cls THEN 1 ELSE 0
           rwrites == IF r.event_handler # t.event_handler THEN 1 ELSE 0
       IN  /\ event_handler' = r.event_handler
           /\ message_log' = r.message_log
           /\ mouse_location' = t.mouse_location
           /\ running' = ~r.exit
           /\ enemy_turns' = enemy_turns + Count(r.calls, "handle_enemy_turns")
           /\ fov_updates' = fov_updates + Count(r.calls, "update_fov")
           /\ performed_ok' = performed_ok + ok
           /\ last' = [type    |-> event.type,
                       sym     |-> event.sym,
                       tile    |-> event.tile,
                       cls     |-> event_handler.cls,
                       action  |-> t.action,
                       outcome |-> IF t.exit \/ t.action = None
                                   THEN "-" ELSE outcome,
                       ret     |-> r.ret,
                       calls   |-> r.calls,
                       translated |-> t.event_handler.cls,
                       writes  |-> twrites + rwrites]

----------------------------------------------------------------------------
(* The program: the engine is built with the main-game handler, an empty   *)
(* log and no pointer location, and then handles one event after another.  *)

Init ==
    /\ event_handler = MainGameEventHandler
    /\ message_log = <<>>
    /\ mouse_location = <<>>
    /\ running = TRUE
    /\ enemy_turns = 0
    /\ fov_updates = 0
    /\ performed_ok = 0
    /\ last = [type |-> "", sym |-> "", tile |-> <<>>, cls |-> "",
               action |-> None, outcome |-> "-", ret |-> "", calls |-> <<>>,
               translated |-> "", writes |-> 0]
    /\ discarded = [cls |-> "None"]

\* What may happen while the Action a key yields is resolved: nothing to
\* choose when the key yields no Action.
Performs(action) ==
    IF action = None
    THEN {[outcome |-> "ok", info |-> FALSE, dies |-> FALSE]}
    ELSE {[outcome |-> o, info |-> FALSE, dies |-> FALSE] :
              o \in PerformOutcomes \ {"ok"}}
         \cup [outcome : {"ok"}, info : BOOLEAN, dies : BOOLEAN]

\* The part of the session explored: logs of at most maxlog messages and
\* at most maxturns successfully performed actions.
Within(maxlog, maxturns) ==
    Len(message_log') <= maxlog /\ performed_ok' <= maxturns

\* Whether the exploration keeps the history viewer a call replaces.
Discards(track) ==
    discarded' = IF /\ track
                    /\ event_handler.cls = "HistoryViewer"
                    /\ event_handler'.cls # "HistoryViewer"
                 THEN event_handler ELSE discarded

OnKeyDown(maxlog, maxturns, track) ==
    \E sym \in KeySym :
        \E p \in Performs(dispatch(event_handler, mouse_location, message_log,
                                    KeyDown(sym)).action) :
            /\ handle_events(KeyDown(sym), p.outcome, p.info, p.dies)
            /\ Within(maxlog, maxturns)
            /\ Discards(track)

OnMouseMotion ==
    /\ \E x \in ReportedX, y \in ReportedY :
           handle_events(MouseMotion(x, y), "ok", FALSE, FALSE)
    /\ Discards(FALSE)

OnQuit == handle_events(Quit, "ok", FALSE, FALSE) /\ Discards(FALSE)

OnKeyUp == handle_events(KeyUp, "ok", FALSE, FALSE) /\ Discards(FALSE)

Next ==
    OnKeyDown(MaxLog, MaxTurns, FALSE) \/ OnMouseMotion \/ OnQuit \/ OnKeyUp

Spec == Init /\ [][Next]_vars

\* The same program driven from the keyboard alone, explored along longer
\* logs and fewer successful actions: the logs a history review can be
\* opened on.
NextScroll ==
    OnKeyDown(MaxHistory, MaxScrollTurns, FALSE) \/ OnQuit \/ OnKeyUp

SpecScroll == Init /\ [][NextScroll]_vars

\* The same program driven from the keyboard alone, keeping each replaced
\* history viewer for comparison with the one installed later.
NextReopen ==
    OnKeyDown(MaxReopenLog, MaxScrollTurns, TRUE) \/ OnQuit \/ OnKeyUp

SpecReopen == Init /\ [][NextReopen]_vars

----------------------------------------------------------------------------
(* Properties.  Every step of Next is one handle_events call, and last'    *)
(* describes the call that made the step.                                  *)

IsPrefix(a, b) == Len(a) <= Len(b) /\ SubSeq(b, 1, Len(a)) = a

TurnUnchanged == UNCHANGED <<enemy_turns, fov_updates, performed_ok>>

\* Position of call c in a sequence of engine calls, 0 when absent.
CallIndex(calls, c) ==
    IF \E i \in DOMAIN calls : calls[i] = c
    THEN CHOOSE i \in DOMAIN calls : calls[i] = c
    ELSE 0

\* C1: an Action whose perform() raises Impossible appends exactly one
\* message, styled impossible, to the log; the enemies do not act, the
\* field of view is not recomputed, and handle_action returns False.
C1_ImpossibleCostsNoTurn ==
    [][last'.outcome = "impossible" =>
          /\ Len(message_log') = Len(message_log) + 1
          /\ IsPrefix(message_log, message_log')
          /\ message_log'[Len(message_log')].fg = "impossible"
          /\ enemy_turns' = enemy_turns
          /\ fov_updates' = fov_updates
          /\ Count(last'.calls, "handle_enemy_turns") = 0
          /\ Count(last'.calls, "update_fov") = 0
          /\ last'.ret = "False"]_vars

C1_Witness ==
    /\ last.outcome = "impossible"
    /\ last.action = BumpAction(0, -1)
    /\ last.ret = "False"
    /\ Len(message_log) >= 1
    /\ message_log[Len(message_log)].fg = "impossible"

\* C2: an Action whose perform() returns normally makes the enemies act
\* once, then recomputes the field of view once, in that order, and
\* handle_action returns True; no impossible message is appended.
C2_SuccessRunsTurnInOrder ==
    [][last'.outcome = "ok" =>
          /\ Count(last'.calls, "handle_enemy_turns") = 1
          /\ Count(last'.calls, "update_fov") = 1
          /\ CallIndex(last'.calls, "perform")
                 < CallIndex(last'.calls, "handle_enemy_turns")
          /\ CallIndex(last'.calls, "handle_enemy_turns")
                 < CallIndex(last'.calls, "update_fov")
          /\ enemy_turns' = enemy_turns + 1
          /\ fov_updates' = fov_updates + 1
          /\ last'.ret = "True"
          /\ IsPrefix(message_log, message_log')
          /\ \A i \in Len(message_log) + 1 .. Len(message_log') :
                 message_log'[i].fg # "impossible"]_vars

C2_Witness ==
    /\ last.sym = "PERIOD"
    /\ last.action = WaitAction
    /\ last.outcome = "ok"
    /\ last.ret = "True"
    /\ enemy_turns >= 1
    /\ fov_updates >= 1

\* C3: the enemy-turn rounds, the field-of-view recomputations and the
\* successfully performed Actions are always equal in number, and a call
\* that performs no Action successfully (no Action, Impossible, pointer
\* motion, a change of handler) increases none of them.
C3_TurnFairness ==
    /\ [](enemy_turns = fov_updates /\ fov_updates = performed_ok)
    /\ [][IF last'.outcome = "ok"
          THEN /\ enemy_turns' = enemy_turns + 1
               /\ fov_updates' = fov_updates + 1
               /\ performed_ok' = performed_ok + 1
          ELSE TurnUnchanged]_vars

C3_Witness ==
    /\ performed_ok >= 2
    /\ enemy_turns = performed_ok
    /\ fov_updates = performed_ok
    /\ \E i \in DOMAIN message_log : message_log[i].fg = "impossible"
    /\ event_handler.cls = "HistoryViewer"
    /\ last.type = "MOUSEMOTION"

\* The keys MainGameEventHandler.ev_keydown has a branch for.
MainGameKeys == DOMAIN MOVE_KEYS \cup WAIT_KEYS \cup {"ESCAPE", "v", "g"}

\* C4: in the main game a key that is no move key, wait key, escape, v or g
\* yields no Action; handle_action returns False and nothing changes: no
\* message, no enemy turn, no field-of-view update, same handler.
C4_UnboundKeyIgnored ==
    [][(/\ last'.type = "KEYDOWN"
        /\ last'.cls = "MainGameEventHandler"
        /\ last'.sym \notin MainGameKeys) =>
          /\ last'.action = None
          /\ last'.ret = "False"
          /\ last'.calls = <<>>
          /\ event_handler' = MainGameEventHandler
          /\ TurnUnchanged
          /\ UNCHANGED <<message_log, mouse_location, running>>]_vars

C4_Witness ==
    /\ last.type = "KEYDOWN"
    /\ last.cls = "MainGameEventHandler"
    /\ last.sym = "RETURN"
    /\ last.ret = "False"
    /\ event_handler = MainGameEventHandler
    /\ Len(message_log) >= 1

\* C5: v in the main game yields no Action (no turn, no message) and
\* installs a HistoryViewer whose log_length is the number of messages at
\* that moment and whose cursor is log_length - 1.
C5_ViewKeyOpensHistory ==
    [][(/\ last'.type = "KEYDOWN"
        /\ last'.cls = "MainGameEventHandler"
        /\ last'.sym = "v") =>
          /\ last'.action = None
          /\ last'.calls = <<>>
          /\ event_handler'.cls = "HistoryViewer"
          /\ event_handler'.log_length = Len(message_log)
          /\ event_handler'.cursor = event_handler'.log_length - 1
          /\ TurnUnchanged
          /\ UNCHANGED <<message_log, running>>]_vars

C5_Witness ==
    /\ last.type = "KEYDOWN"
    /\ last.cls = "MainGameEventHandler"
    /\ last.sym = "v"
    /\ event_handler.cls = "HistoryViewer"
    /\ event_handler.log_length = 2
    /\ event_handler.cursor = 1
    /\ Len(message_log) = 2

\* The keys HistoryViewer.ev_keydown treats as navigation.
HistoryNavKeys == DOMAIN CURSOR_Y_KEYS \cup {"HOME", "END"}

HistoryKeyDown ==
    last'.type = "KEYDOWN" /\ last'.cls = "HistoryViewer"

\* The cursor bounded to the log, as a plain clamp.
Clamp(cursor, log_length) == Max(0, Min(cursor, log_length - 1))

\* C6: whenever a HistoryViewer with log_length > 0 is the active handler,
\* on activation and after any keys, 0 <= cursor <= log_length - 1.
C6_CursorInRange ==
    (event_handler.cls = "HistoryViewer" /\ event_handler.log_length > 0) =>
        /\ 0 <= event_handler.cursor
        /\ event_handler.cursor <= event_handler.log_length - 1

C6_Witness ==
    /\ event_handler.cls = "HistoryViewer"
    /\ event_handler.log_length = 12
    /\ event_handler.cursor = 1
    /\ last.cls = "HistoryViewer"
    /\ last.sym = "PAGEUP"

\* C7 as stated: a scroll key with step s sets the cursor to
\* max(0, min(cursor + s, log_length - 1)) at every cursor position.
C7_PlainClampEverywhere ==
    [][(HistoryKeyDown /\ last'.sym \in DOMAIN CURSOR_Y_KEYS) =>
          event_handler'.cursor =
              Clamp(event_handler.cursor + CURSOR_Y_KEYS[last'.sym],
                    event_handler.log_length)]_vars

\* C7, amended: a scroll key with step s sets the cursor to
\* max(0, min(cursor + s, log_length - 1)), except that a positive step at
\* cursor = log_length - 1 sets it to 0; a negative step at cursor 0 leaves
\* it at 0.  The handler and its log_length are unchanged.
C7_ClampExceptWrapToTop ==
    [][(HistoryKeyDown /\ last'.sym \in DOMAIN CURSOR_Y_KEYS) =>
          /\ event_handler'.cls = "HistoryViewer"
          /\ event_handler'.log_length = event_handler.log_length
          /\ event_handler'.cursor =
                 IF /\ CURSOR_Y_KEYS[last'.sym] > 0
                    /\ event_handler.cursor = event_handler.log_length - 1
                 THEN 0
                 ELSE Clamp(event_handler.cursor + CURSOR_Y_KEYS[last'.sym],
                            event_handler.log_length)
          /\ (CURSOR_Y_KEYS[last'.sym] < 0 /\ event_handler.cursor = 0
                  => event_handler'.cursor = 0)]_vars

C7_Witness ==
    /\ event_handler.cls = "HistoryViewer"
    /\ event_handler.log_length = 12
    /\ event_handler.cursor = 0
    /\ last.cls = "HistoryViewer"
    /\ last.sym = "DOWN"

\* C8: in the history viewer a key other than up, down, page-up, page-down,
\* home and end installs the main-game handler, yields no Action and does
\* not end the process; those six keys keep the history viewer installed.
C8_OtherKeyReturnsToMain ==
    [][HistoryKeyDown =>
          /\ last'.action = None
          /\ last'.calls = <<>>
          /\ last'.ret = "False"
          /\ running'
          /\ TurnUnchanged
          /\ UNCHANGED message_log
          /\ IF last'.sym \in HistoryNavKeys
             THEN /\ event_handler'.cls = "HistoryViewer"
                  /\ event_handler'.log_length = event_handler.log_length
             ELSE event_handler' = MainGameEventHandler]_vars

C8_Witness ==
    /\ last.type = "KEYDOWN"
    /\ last.cls = "HistoryViewer"
    /\ last.sym = "ESCAPE"
    /\ event_handler = MainGameEventHandler
    /\ running

\* C9: under every handler a pointer-motion event stores the reported tile
\* iff it is in bounds and otherwise leaves the stored location alone; it
\* yields no Action, costs no turn, appends no message and leaves the
\* handler (cursor included) as it was.  A stored location is in bounds.
C9_PointerMotion ==
    /\ [](mouse_location # <<>> =>
              in_bounds(mouse_location[1], mouse_location[2]))
    /\ [][last'.type = "MOUSEMOTION" =>
             /\ mouse_location' =
                    IF in_bounds(last'.tile[1], last'.tile[2])
                    THEN last'.tile ELSE mouse_location
             /\ last'.action = None
             /\ last'.calls = <<>>
             /\ TurnUnchanged
             /\ UNCHANGED <<message_log, event_handler, running>>]_vars

C9_Witness ==
    /\ last.type = "MOUSEMOTION"
    /\ last.cls = "HistoryViewer"
    /\ ~in_bounds(last.tile[1], last.tile[2])
    /\ mouse_location = <<0, 0>>

\* C10: under the game-over handler every key but escape is ignored (no
\* Action, no turn, no message, handler kept); escape raises SystemExit
\* instead of returning an Action; a key never replaces the handler.
C10_GameOverKeys ==
    [][(last'.type = "KEYDOWN" /\ last'.cls = "GameOverEventHandler") =>
          /\ last'.action = None
          /\ last'.calls = <<>>
          /\ event_handler' = GameOverEventHandler
          /\ TurnUnchanged
          /\ UNCHANGED <<message_log, mouse_location>>
          /\ IF last'.sym = "ESCAPE"
             THEN ~running' /\ last'.ret = "SystemExit"
             ELSE running' /\ last'.ret = "False"]_vars

C10_Witness ==
    /\ last.type = "KEYDOWN"
    /\ last.cls = "GameOverEventHandler"
    /\ last.sym = "ESCAPE"
    /\ event_handler = GameOverEventHandler
    /\ ~running

MainGameKeyDown ==
    last'.type = "KEYDOWN" /\ last'.cls = "MainGameEventHandler"

\* The (dx, dy) the key bindings table of the specification lists.
ListedDirection(key) ==
    CASE key = "UP"       -> <<0, -1>>
      [] key = "DOWN"     -> <<0, 1>>
      [] key = "LEFT"     -> <<-1, 0>>
      [] key = "RIGHT"    -> <<1, 0>>
      [] key = "HOME"     -> <<-1, -1>>
      [] key = "END"      -> <<-1, 1>>
      [] key = "PAGEUP"   -> <<1, -1>>
      [] key = "PAGEDOWN" -> <<1, 1>>

ListedMoveKeys ==
    {"UP", "DOWN", "LEFT", "RIGHT", "HOME", "END", "PAGEUP", "PAGEDOWN"}

\* C11: in the main game each of the eight move keys yields a move Action
\* with exactly the listed (dx, dy), and ev_keydown installs no other
\* handler while translating it.
C11_MoveKeysYieldListedMove ==
    [][(MainGameKeyDown /\ last'.sym \in ListedMoveKeys) =>
          /\ last'.action.kind = "BumpAction"
          /\ <<last'.action.dx, last'.action.dy>> = ListedDirection(last'.sym)
          /\ last'.translated = "MainGameEventHandler"
          /\ Head(last'.calls) = "perform"]_vars

C11_Witness ==
    /\ last.type = "KEYDOWN"
    /\ last.cls = "MainGameEventHandler"
    /\ last.sym = "END"
    /\ last.action = BumpAction(-1, 1)
    /\ last.outcome = "ok"
    /\ event_handler = MainGameEventHandler

\* C12: a Quit event ends the process under every handler, HelpViewer
\* included: no Action is resolved, no enemy turn, no field-of-view update,
\* no message, the handler is not replaced; once the process has ended no
\* event is handled.
C12_QuitEndsProcess ==
    /\ [](\A h \in {MainGameEventHandler, GameOverEventHandler, HelpViewer,
                    event_handler} :
              dispatch(h, mouse_location, message_log, Quit)
                  = Translated(None, h, mouse_location, TRUE))
    /\ [][last'.type = "QUIT" =>
             /\ ~running'
             /\ last'.action = None
             /\ last'.calls = <<>>
             /\ last'.ret = "SystemExit"
             /\ last'.writes = 0
             /\ TurnUnchanged
             /\ UNCHANGED <<message_log, event_handler, mouse_location>>]_vars
    /\ [][running]_vars

C12_Witness ==
    /\ last.type = "QUIT"
    /\ last.cls = "HistoryViewer"
    /\ event_handler.cls = "HistoryViewer"
    /\ Len(message_log) >= 1
    /\ ~running

\* A history-viewer key press that yields no Action and costs nothing.
HistoryKeyYieldsNoAction ==
    /\ last'.action = None
    /\ last'.calls = <<>>
    /\ last'.ret = "False"
    /\ TurnUnchanged
    /\ UNCHANGED message_log

\* The handler after is the same history viewer, but for its cursor.
OnlyCursorMay(before, after) ==
    /\ after.cls = "HistoryViewer"
    /\ after.log_length = before.log_length

\* C13 as stated: under the history viewer no key yields an Action, and
\* every key that is a move key of the main game only changes the cursor.
C13_MoveKeysOnlyMoveCursor ==
    [][HistoryKeyDown =>
          /\ HistoryKeyYieldsNoAction
          /\ (last'.sym \in ListedMoveKeys =>
                  OnlyCursorMay(event_handler, event_handler'))
      ]_vars

\* C13, amended: under the history viewer no key yields an Action (perform()
\* is never called, no turn, no message); of the main game's move keys, up,
\* down, home, end, page-up and page-down only change the cursor, while
\* left and right install the main-game handler.
C13_HistoryYieldsNoAction ==
    [][HistoryKeyDown =>
          /\ HistoryKeyYieldsNoAction
          /\ (last'.sym \in ListedMoveKeys \ {"LEFT", "RIGHT"} =>
                  OnlyCursorMay(event_handler, event_handler'))
          /\ (last'.sym \in {"LEFT", "RIGHT"} =>
                  event_handler' = MainGameEventHandler)]_vars

C13_Witness ==
    /\ last.type = "KEYDOWN"
    /\ last.cls = "HistoryViewer"
    /\ last.sym = "LEFT"
    /\ last.action = None
    /\ event_handler = MainGameEventHandler
    /\ Len(message_log) >= 1

\* The Action was handed to handle_action, which called its perform(); the
\* process ends only if perform() itself raises past handle_action.
HandedToResolver ==
    /\ last'.outcome \in PerformOutcomes
    /\ Head(last'.calls) = "perform"
    /\ last'.translated = "MainGameEventHandler"
    /\ running' = (last'.outcome # "exit")

\* C14: in the main game escape yields an EscapeAction, the wait key a
\* WaitAction and g a PickupAction, each handed to handle_action; ev_keydown
\* itself neither ends the process nor replaces the handler.  Under the
\* game-over handler escape, and under any handler a Quit event, raise
\* SystemExit inside dispatch: no Action, perform() never called.
C14_MainGameActionKeys ==
    /\ [][(MainGameKeyDown /\ last'.sym = "ESCAPE") =>
             last'.action = EscapeAction /\ HandedToResolver]_vars
    /\ [][(MainGameKeyDown /\ last'.sym = "PERIOD") =>
             last'.action = WaitAction /\ HandedToResolver]_vars
    /\ [][(MainGameKeyDown /\ last'.sym = "g") =>
             last'.action = PickupAction /\ HandedToResolver]_vars
    /\ [][(\/ last'.type = "QUIT"
           \/ /\ last'.type = "KEYDOWN"
              /\ last'.cls = "GameOverEventHandler"
              /\ last'.sym = "ESCAPE") =>
             /\ last'.action = None
             /\ last'.calls = <<>>
             /\ ~running']_vars

C14_Witness ==
    /\ last.type = "KEYDOWN"
    /\ last.cls = "MainGameEventHandler"
    /\ last.sym = "ESCAPE"
    /\ last.action = EscapeAction
    /\ last.calls = <<"perform", "add_message">>
    /\ event_handler = MainGameEventHandler
    /\ running

\* The history viewer after k presses of a navigation key.
RECURSIVE Press(_, _, _)
Press(handler, key, k) ==
    IF k = 0
    THEN handler
    ELSE History_ev_keydown(Press(handler, key, k - 1), <<>>, key).event_handler

\* C15: in a history viewer with log_length = n > 0 and cursor c, k presses
\* of up leave the cursor at max(0, c - k); home sets it to 0 and end to
\* n - 1 from any position, and a second home or end changes nothing.
C15_UpHomeEnd ==
    (event_handler.cls = "HistoryViewer" /\ event_handler.log_length > 0) =>
        /\ \A k \in 0 .. MaxPresses :
               /\ Press(event_handler, "UP", k).cls = "HistoryViewer"
               /\ Press(event_handler, "UP", k).cursor
                      = Max(0, event_handler.cursor - k)
        /\ Press(event_handler, "HOME", 1)
               = [event_handler EXCEPT !.cursor = 0]
        /\ Press(event_handler, "END", 1)
               = [event_handler EXCEPT !.cursor = event_handler.log_length - 1]
        /\ Press(event_handler, "HOME", 2) = Press(event_handler, "HOME", 1)
        /\ Press(event_handler, "END", 2) = Press(event_handler, "END", 1)

C15_Witness ==
    /\ event_handler = [cls |-> "HistoryViewer", log_length |-> 5, cursor |-> 0]
    /\ last.cls = "HistoryViewer"
    /\ last.sym = "UP"
    /\ Press(HistoryViewer(message_log), "UP", 4).cursor = 0
    /\ Press(HistoryViewer(message_log), "UP", 3).cursor = 1
    /\ Press(HistoryViewer(message_log), "UP", 5).cursor = 0

HistoryOnEmptyLog ==
    event_handler.cls = "HistoryViewer" /\ event_handler.log_length = 0

\* C16 as stated: in a history viewer opened on an empty log no navigation
\* key moves the cursor from log_length - 1, and the rendered window stays
\* empty.
C16_EmptyLogCursorFixed ==
    HistoryOnEmptyLog =>
        /\ event_handler.cursor = event_handler.log_length - 1
        /\ RenderedMessages(message_log, event_handler.cursor) = <<>>

\* C16, amended: in a history viewer opened on an empty log the rendered
\* window stays empty under every navigation key; the cursor does not stay
\* at -1: up, down, page-up, page-down and home set it to 0, end sets it
\* to -1.
C16_EmptyLogRendersNothing ==
    /\ [](HistoryOnEmptyLog =>
              /\ event_handler.cursor \in {-1, 0}
              /\ RenderedMessages(message_log, event_handler.cursor) = <<>>)
    /\ [][(HistoryKeyDown /\ HistoryOnEmptyLog
               /\ last'.sym \in HistoryNavKeys) =>
             /\ OnlyCursorMay(event_handler, event_handler')
             /\ event_handler'.cursor = IF last'.sym = "END" THEN -1 ELSE 0
         ]_vars

C16_Witness ==
    /\ event_handler = [cls |-> "HistoryViewer", log_length |-> 0, cursor |-> 0]
    /\ message_log = <<>>
    /\ last.cls = "HistoryViewer"
    /\ last.sym = "PAGEUP"
    /\ RenderedMessages(message_log, event_handler.cursor) = <<>>

\* C17: one handle_events call assigns engine.event_handler at most once.
\* The ev_* methods replace the handler only from the main game to the
\* history viewer (on v) and from the history viewer to the main game (on a
\* key that is no navigation key), the latter in a single assignment; they
\* never install the game-over handler or the help viewer, and under the
\* game-over handler nothing replaces the handler.
C17_OneHandlerWritePerCall ==
    [][/\ last'.writes <= 1
       /\ (last'.translated # last'.cls =>
               \/ /\ last'.type = "KEYDOWN"
                  /\ last'.cls = "MainGameEventHandler"
                  /\ last'.sym = "v"
                  /\ last'.translated = "HistoryViewer"
                  /\ event_handler'.cls = "HistoryViewer"
               \/ /\ last'.type = "KEYDOWN"
                  /\ last'.cls = "HistoryViewer"
                  /\ last'.sym \notin HistoryNavKeys
                  /\ last'.translated = "MainGameEventHandler"
                  /\ last'.writes = 1
                  /\ event_handler' = MainGameEventHandler)
       /\ (last'.cls = "GameOverEventHandler" =>
               last'.writes = 0 /\ event_handler' = GameOverEventHandler)
       /\ event_handler'.cls # "HelpViewer"]_vars

C17_Witness ==
    /\ last.type = "KEYDOWN"
    /\ last.cls = "HistoryViewer"
    /\ last.sym = "g"
    /\ last.translated = "MainGameEventHandler"
    /\ last.writes = 1
    /\ event_handler = MainGameEventHandler

\* C18: a history viewer keeps nothing of the one before it: whenever v is
\* pressed in the main game, also after an earlier viewer was left with its
\* cursor anywhere and messages were logged since, the viewer installed has
\* log_length = the current number of messages and cursor = that minus 1.
C18_ReopenedViewerIsFresh ==
    [][(MainGameKeyDown /\ last'.sym = "v") =>
          /\ event_handler' = [cls        |-> "HistoryViewer",
                               log_length |-> Len(message_log'),
                               cursor     |-> Len(message_log') - 1]
          /\ discarded' = discarded
          /\ (discarded.cls = "HistoryViewer" =>
                  event_handler'.log_length >= discarded.log_length)]_vars

C18_Witness ==
    /\ discarded = [cls |-> "HistoryViewer", log_length |-> 2, cursor |-> 0]
    /\ last.type = "KEYDOWN"
    /\ last.cls = "MainGameEventHandler"
    /\ last.sym = "v"
    /\ Len(message_log) = 3
    /\ event_handler = [cls |-> "HistoryViewer", log_length |-> 3, cursor |-> 2]

HistoryActive == event_handler.cls = "HistoryViewer"

\* C19 as stated: whenever a history viewer is the active handler its
\* log_length equals the number of messages in the log, and the rendered
\* prefix messages[0 .. cursor] lies within the log.
C19_SnapshotLiveAndPrefixInLog ==
    HistoryActive =>
        /\ event_handler.log_length = Len(message_log)
        /\ event_handler.cursor + 1 <= Len(message_log)

\* C19, amended: whenever a history viewer is the active handler its
\* log_length equals the number of messages in the log, and no call made
\* while it is active appends a message; the slice messages[: cursor + 1]
\* that is rendered is a prefix of the log, and it ends within the log
\* whenever log_length > 0 (on an empty log the cursor can be 0, one past
\* the log, and the slice is cut to the empty log).
C19_SnapshotLive ==
    /\ [](HistoryActive =>
              /\ event_handler.log_length = Len(message_log)
              /\ IsPrefix(RenderedMessages(message_log, event_handler.cursor),
                          message_log)
              /\ (event_handler.log_length > 0 =>
                      /\ event_handler.cursor + 1 <= Len(message_log)
                      /\ Len(RenderedMessages(message_log,
                                              event_handler.cursor))
                             = event_handler.cursor + 1))
    /\ [][HistoryActive =>
             /\ message_log' = message_log
             /\ last'.calls = <<>>]_vars

C19_Witness ==
    /\ HistoryActive
    /\ event_handler.log_length = 2
    /\ event_handler.cursor = 0
    /\ Len(message_log) = 2
    /\ RenderedMessages(message_log, event_handler.cursor)
           = <<message_log[1]>>
    /\ last.cls = "HistoryViewer"
    /\ last.type = "MOUSEMOTION"

====
